---- MODULE Spec2Model ----
(***************************************************************************)
(* Model of scripts/run_inference.py: the batch driver of the reverse-     *)
(* diffusion sampler.  main() is one sequential function; its statements   *)
(* between external calls (the Sampler, the writers, the file system) are  *)
(* the actions below and pc is the position inside main().                 *)
(*                                                                         *)
(* Paths are sequences of one-character strings so that the f-string       *)
(* formatting, the glob and the regular expression of the resume scan are  *)
(* computed, not assumed.  Structure and confidence tensors, which main()  *)
(* only moves around, are tokens <<role, seed, draw>> naming the generator *)
(* state of the Sampler call that produced them.  Sequence tensors, which  *)
(* main() computes on (argmax, where), are rows of scores per residue.     *)
(***************************************************************************)
EXTENDS Integers, Sequences, FiniteSets, TLC

\* ------------------------------------------------------------------ bounds
MaxStart   == 1   \* explicit design_startnum ranges over 0..MaxStart
MaxDesigns == 2   \* num_designs ranges over 0..MaxDesigns
MaxSeed    == 1   \* conf.inference.seed ranges over 0..MaxSeed
MaxT       == 2   \* t_step_input and final_step range over 0..MaxT
SeqLen     == 2   \* residues per design
MaxPre     == 2   \* files that exist before the first run
MaxEntropy == 2   \* initial states of unseeded generators
MaxRuns    == 2   \* times the command is started

\* --------------------------------------------------------------- constants
DiffusedIdx == 21  \* the reserved "diffused" category
Glycine     == 7   \* the placeholder category
PadWidth    == 5   \* width of the zero-padded design index
NumCats     == DiffusedIdx + 1

\* ------------------------------------------------------------------- state
VARIABLES
  conf,                \* the resolved configuration (conf.inference.*)
  files,               \* the file system: path -> content
  dirs,                \* the directories that exist
  run,                 \* how many times the command has been started
  gen,                 \* state of the pseudo-random generators
  pc,                  \* position in main()
  fail,                \* what ended the run: "none", "sampler", "stack", "io"
  design_startnum,     \* the resolved start index
  i_des,               \* the design index of the for loop
  x_init, seq_init,    \* what sample_init() returned
  x_t, seq_t, t,       \* the loop's current structure, sequence and timestep
  aliased,             \* which of x_t, seq_t are the very tensors x_init, seq_init
  px0_xyz_stack, denoised_xyz_stack, seq_stack, plddt_stack,
  final_seq, bfacts,
  calls,               \* history: the sample_step calls of the current design
  trace                \* history: the events of the current run, in order

vars == <<conf, files, dirs, run, gen, pc, fail, design_startnum, i_des,
          x_init, seq_init, x_t, seq_t, t, aliased,
          px0_xyz_stack, denoised_xyz_stack, seq_stack, plddt_stack,
          final_seq, bfacts, calls, trace>>

locals == <<x_init, seq_init, x_t, seq_t, t, aliased,
            px0_xyz_stack, denoised_xyz_stack, seq_stack, plddt_stack,
            final_seq, bfacts, calls>>
stacks == <<px0_xyz_stack, denoised_xyz_stack, seq_stack, plddt_stack>>
disk == <<files, dirs>>

\* ------------------------------------------------------------------- paths
output_prefix == <<"o", "/", "d">>
PdbExt == <<".", "p", "d", "b">>
TrbExt == <<".", "t", "r", "b">>
XtSuffix  == <<"_", "X", "t", "-", "1", "_", "t", "r", "a", "j", ".", "p", "d", "b">>
Px0Suffix == <<"_", "p", "X", "0", "_", "t", "r", "a", "j", ".", "p", "d", "b">>
TrajDir == <<"/", "t", "r", "a", "j", "/">>
DigitChars == <<"0", "1", "2", "3", "4", "5", "6", "7", "8", "9">>

IsDigit(c) == \E d \in 1..10 : DigitChars[d] = c
DigitVal(c) == (CHOOSE d \in 1..10 : DigitChars[d] = c) - 1

RECURSIVE Digits(_)
Digits(n) == IF n < 10 THEN <<DigitChars[n + 1]>>
             ELSE Digits(n \div 10) \o <<DigitChars[(n % 10) + 1]>>

RECURSIVE ZeroPad(_, _)
ZeroPad(s, w) == IF Len(s) >= w THEN s ELSE ZeroPad(<<"0">> \o s, w)

\* faulty variant: the index is formatted without padding
FormatPlain(i) == Digits(i)

\* f"{i_des:05d}" for i_des >= 0
Format05d(i) == ZeroPad(Digits(i), PadWidth)

\* f"{output_prefix}_{i_des:05d}"
OutPrefix(i) == output_prefix \o <<"_">> \o Format05d(i)

StartsWith(s, p) == Len(s) >= Len(p) /\ SubSeq(s, 1, Len(p)) = p
EndsWith(s, p) == Len(s) >= Len(p) /\ SubSeq(s, Len(s) - Len(p) + 1, Len(s)) = p

\* index of the last "/" of p, 0 when there is none
LastSlash(p) == IF \E k \in 1..Len(p) : p[k] = "/"
                THEN CHOOSE k \in 1..Len(p) :
                       p[k] = "/" /\ \A j \in (k + 1)..Len(p) : p[j] # "/"
                ELSE 0

\* os.path.dirname / os.path.basename (relative paths, no trailing slash)
Dirname(p) == IF LastSlash(p) = 0 THEN <<>> ELSE SubSeq(p, 1, LastSlash(p) - 1)
Basename(p) == SubSeq(p, LastSlash(p) + 1, Len(p))

\* glob.glob(output_prefix + "*.pdb") over the paths in fs: "*" matches any
\* run of characters inside one path component
GlobPdb(fs) ==
  {p \in DOMAIN fs :
     /\ Len(p) >= Len(output_prefix) + Len(PdbExt)
     /\ StartsWith(p, output_prefix)
     /\ EndsWith(p, PdbExt)
     /\ \A k \in (Len(output_prefix) + 1)..(Len(p) - Len(PdbExt)) : p[k] # "/"}

\* length of the run of digits that ends s
RECURSIVE DigitRun(_)
DigitRun(s) == IF Len(s) > 0 /\ IsDigit(s[Len(s)])
               THEN 1 + DigitRun(SubSeq(s, 1, Len(s) - 1))
               ELSE 0

\* re.match(r".*_(\d+)\.pdb$", e): the group, or <<>> when there is no match
ReMatchGroup(e) ==
  IF ~EndsWith(e, PdbExt) THEN <<>>
  ELSE LET stem == SubSeq(e, 1, Len(e) - Len(PdbExt))
           n == DigitRun(stem)
       IN IF n > 0 /\ Len(stem) > n /\ stem[Len(stem) - n] = "_"
          THEN SubSeq(stem, Len(stem) - n + 1, Len(stem))
          ELSE <<>>

\* int(m) of a string of decimal digits
RECURSIVE ParseInt(_)
ParseInt(s) == IF Len(s) = 0 THEN 0
               ELSE 10 * ParseInt(SubSeq(s, 1, Len(s) - 1)) + DigitVal(s[Len(s)])

\* faulty variant: the smallest index is taken
SetMin(S) == CHOOSE m \in S : \A x \in S : m <= x

\* max(indices)
SetMax(S) == CHOOSE m \in S : \A x \in S : x <= m

\* faulty variant: line 118 without the + 1
ScanStartAtLast(fs) ==
  SetMax({-1} \cup {ParseInt(ReMatchGroup(e)) :
                      e \in {g \in GlobPdb(fs) : ReMatchGroup(g) # <<>>}})

\* lines 108-118: indices = [-1] + the parsed suffix of every globbed name
\* that matches; design_startnum = max(indices) + 1
ScanStart(fs) ==
  SetMax({-1} \cup {ParseInt(ReMatchGroup(e)) :
                      e \in {g \in GlobPdb(fs) : ReMatchGroup(g) # <<>>}}) + 1

\* ----------------------------------------------------------------- tensors
\* A sequence tensor is one row of NumCats scores per residue; category c is
\* column c + 1.
OneHot(c) == [k \in 1..NumCats |-> IF k = c + 1 THEN 1 ELSE 0]

\* torch.argmax(row): the first column holding the largest score
ArgMax(row) ==
  (CHOOSE k \in 1..NumCats :
     /\ \A j \in 1..NumCats : row[j] <= row[k]
     /\ \A j \in 1..(k - 1) : row[j] < row[k]) - 1

\* torch.argmax(seq, dim=-1)
ArgMaxSeq(seq) == [r \in 1..Len(seq) |-> ArgMax(seq[r])]

\* faulty variant: line 172 stands, the last step's sequence is the final one
FinalSeqFromLastStep(seq0) == ArgMaxSeq(seq_stack[Len(seq_stack)])

\* line 175: torch.where(argmax(seq_init) == 21, 7, argmax(seq_init))
FinalSeq(seq0) ==
  [r \in 1..Len(seq0) |->
     IF ArgMaxSeq(seq0)[r] = DiffusedIdx THEN Glycine ELSE ArgMaxSeq(seq0)[r]]

\* faulty variant: the mask follows the sequence of the last step
BfactsFromLastStep(seq0) ==
  [r \in 1..Len(seq0) |->
     IF ArgMaxSeq(seq_stack[Len(seq_stack)])[r] = DiffusedIdx THEN 0 ELSE 1]

\* lines 179-181: ones_like(final_seq), then 0 where argmax(seq_init) == 21
Bfacts(seq0) ==
  [r \in 1..Len(FinalSeq(seq0)) |->
     IF ArgMaxSeq(seq0)[r] = DiffusedIdx THEN 0 ELSE 1]

\* torch.flip(torch.stack(stack), [0])
RECURSIVE Flip(_)
Flip(stack) == IF Len(stack) = 0 THEN <<>>
               ELSE Flip(Tail(stack)) \o <<Head(stack)>>

\* faulty variant: the frame generated first is taken
BackboneOfOldest(stack) == <<"atoms0to3", stack[Len(stack)]>>

\* denoised_xyz_stack[0, :, :4]: the backbone atoms of the first frame
Backbone(stack) == <<"atoms0to3", stack[1]>>

\* ----------------------------------------------------------------- Sampler
\* The pseudo-random generators: the last seed and the number of draws since.
\* Unseeded generators start from entropy the run does not control, a seed
\* below 0 here.
Seeded(s) == [seed |-> s, draws |-> 0]
Drawn(g) == [g EXCEPT !.draws = @ + 1]

\* The Sampler is a function of its generator state: what it returns is
\* decided by the seed and the draws made since.
CatByIndex(n) == <<DiffusedIdx, 0, Glycine, 3>>[(n % 4) + 1]
RowByIndex(n) == IF n % 5 = 4
                 THEN [k \in 1..NumCats |->
                         IF k = DiffusedIdx + 1 THEN 2 ELSE IF k = 1 THEN 1 ELSE 0]
                 ELSE OneHot(CatByIndex(n % 5))
Mix(g) == IF g.seed >= 0 THEN 3 * g.seed + 2 * g.draws
          ELSE 7 * (0 - g.seed) + 3 * g.draws
SeqOfGen(g) == [r \in 1..SeqLen |-> RowByIndex(Mix(g) + 2 * r)]

\* sample_init() -> (x_init, seq_init)
SampleInitOut(g) == [x |-> <<"x_init", g.seed, g.draws>>, seq |-> SeqOfGen(g)]

\* sample_step(t, x_t, seq_init, final_step) -> (px0, x_t, seq_t, plddt);
\* plddt carries a leading dimension of size 1
SampleStepOut(g) ==
  [px0   |-> <<"px0", g.seed, g.draws>>,
   x_t   |-> <<"x_t", g.seed, g.draws>>,
   seq_t |-> SeqOfGen(g),
   plddt |-> << <<"plddt", g.seed, g.draws>> >>]

AutoResume == -1   \* the sentinel of design_startnum

PdbPath(i) == OutPrefix(i) \o PdbExt
TrbPath(i) == OutPrefix(i) \o TrbExt
\* lines 210-212: dirname(out_prefix) + "/traj/" + basename(out_prefix)
TrajPrefix(i) == Dirname(OutPrefix(i)) \o TrajDir \o Basename(OutPrefix(i))
XtPath(i) == TrajPrefix(i) \o XtSuffix
Px0Path(i) == TrajPrefix(i) \o Px0Suffix

\* what a file holds: its kind, the run that wrote it (0: before the first
\* run) and the data handed to the writer
File(kind, r, data) == [kind |-> kind, run |-> r, data |-> data]
OldFile == File("old", 0, <<>>)

\* f with path p holding c
Put(f, p, c) == [q \in DOMAIN f \cup {p} |-> IF q = p THEN c ELSE f[q]]

\* files that may exist before the first run: designs 0 and 1 of this
\* prefix, a design of the prefix "o/d2", a name without a numeric suffix,
\* an unpadded index, and metadata without its structure
OtherPrefixPdb == <<"o", "/", "d", "2", "_", "0", "0", "0", "0", "3", ".", "p", "d", "b">>
NoSuffixPdb == <<"o", "/", "d", "_", "v", ".", "p", "d", "b">>
UnpaddedPdb == <<"o", "/", "d", "_", "2", ".", "p", "d", "b">>
Candidates == {PdbPath(0), PdbPath(1), OtherPrefixPdb, NoSuffixPdb, UnpaddedPdb,
               TrbPath(0)}

Event(name, i, a) == <<name, i, a>>
NoDesign == 0 - 1   \* the design index of an event outside the design loop

\* ------------------------------------------------------------------- Init
Conf(det, seed, start, num, caut, traj, tin, fin) ==
  [deterministic |-> det, seed |-> seed, design_startnum |-> start,
   num_designs |-> num, cautious |-> caut, write_trajectory |-> traj,
   t_step_input |-> tin, final_step |-> fin]

\* the seeds a configuration can carry: unused, hence 0, without determinism
SeedChoices(det) == IF det THEN 0..MaxSeed ELSE {0}

\* Batch configurations: every start index, count, flag and seed over the
\* files that may pre-exist, with the full timestep range MaxT..0.
BatchConfs ==
  {Conf(det, seed, start, num, caut, traj, MaxT, 0) :
     det \in BOOLEAN, seed \in 0..MaxSeed, start \in {AutoResume} \cup 0..MaxStart,
     num \in 0..MaxDesigns, caut \in BOOLEAN, traj \in BOOLEAN}

\* Loop configurations: every pair of timesteps, for one or two designs
\* from index 0.
LoopConfs ==
  {Conf(det, seed, 0, num, FALSE, traj, tin, fin) :
     det \in BOOLEAN, seed \in 0..MaxSeed, num \in 1..MaxDesigns, traj \in BOOLEAN,
     tin \in 0..MaxT, fin \in 0..MaxT}

Unset == <<>>

InitLocals ==
  /\ pc = "start" /\ fail = "none" /\ run = 1
  /\ design_startnum = 0 /\ i_des = 0
  /\ x_init = Unset /\ seq_init = Unset /\ x_t = Unset /\ seq_t = Unset /\ t = 0
  /\ aliased = {}
  /\ px0_xyz_stack = <<>> /\ denoised_xyz_stack = <<>>
  /\ seq_stack = <<>> /\ plddt_stack = <<>>
  /\ final_seq = Unset /\ bfacts = Unset
  /\ calls = <<>> /\ trace = <<>>

InitDisk(S) ==
  /\ files = [p \in S |-> OldFile]
  /\ dirs = {Dirname(p) : p \in S}

InitBatch ==
  /\ conf \in {c \in BatchConfs : c.seed \in SeedChoices(c.deterministic)}
  /\ \E S \in SUBSET Candidates : Cardinality(S) <= MaxPre /\ InitDisk(S)
  /\ gen = Seeded(0 - 1)
  /\ InitLocals

InitLoop ==
  /\ conf \in {c \in LoopConfs : c.seed \in SeedChoices(c.deterministic)}
  /\ InitDisk({})
  /\ \E e \in 1..MaxEntropy : gen = Seeded(0 - e)
  /\ InitLocals

Init == InitBatch \/ InitLoop

\* ---------------------------------------------------------------- actions
Log(e) == trace' = Append(trace, e)

Abort(kind) ==
  /\ pc' = "aborted" /\ fail' = kind
  /\ Log(Event("raise", i_des, 0))

\* lines 37-41: make_deterministic(seed)
MakeDeterministic(seed) == Seeded(seed)

\* lines 82-100: seed the generators when determinism is asked for
Startup ==
  /\ pc = "start"
  /\ gen' = IF conf.deterministic THEN MakeDeterministic(conf.seed) ELSE gen
  /\ trace' = IF conf.deterministic
              THEN Append(trace, Event("seed", NoDesign, conf.seed)) ELSE trace
  /\ pc' = "construct"
  /\ UNCHANGED <<conf, disk, run, fail, design_startnum, i_des, locals>>

\* line 103: sampler = iu.sampler_selector(conf); building it draws from the
\* generators
ConstructSampler ==
  /\ pc = "construct"
  /\ gen' = Drawn(gen)
  /\ Log(Event("construct", NoDesign, 0))
  /\ pc' = "resolve"
  /\ UNCHANGED <<conf, disk, run, fail, design_startnum, i_des, locals>>

\* lines 106-118
ResolveStart ==
  /\ pc = "resolve"
  /\ design_startnum' = IF conf.design_startnum = AutoResume
                        THEN ScanStart(files) ELSE conf.design_startnum
  /\ i_des' = design_startnum'
  /\ pc' = "loop"
  /\ UNCHANGED <<conf, disk, run, gen, fail, locals, trace>>

\* faulty variant: the range ends at num_designs, not at the start plus num_designs
InBatchFromZero(i) == i < conf.num_designs

\* line 120: range(design_startnum, design_startnum + num_designs)
InBatch(i) == i < design_startnum + conf.num_designs

\* faulty variant: every design is seeded with the base seed
DesignSeedBase(i) == conf.seed

\* lines 121-122: the seed of design i
DesignSeed(i) == conf.seed + i

Reseed(i) ==
  gen' = IF conf.deterministic THEN MakeDeterministic(DesignSeed(i)) ELSE gen

\* faulty variant: the skip looks for the metadata artifact
ShouldSkipOnTrb(i) == conf.cautious /\ TrbPath(i) \in DOMAIN files

\* line 127
ShouldSkip(i) == conf.cautious /\ PdbPath(i) \in DOMAIN files

\* lines 120-131, the skip: reseed, find the artifact, continue
SkipDesign ==
  /\ pc = "loop" /\ InBatch(i_des)
  /\ ShouldSkip(i_des)
  /\ Reseed(i_des)
  /\ trace' = trace \o
       (IF conf.deterministic THEN <<Event("seed", i_des, DesignSeed(i_des))>> ELSE <<>>)
       \o <<Event("skip", i_des, 0)>>
  /\ i_des' = i_des + 1
  /\ UNCHANGED <<conf, disk, run, pc, fail, design_startnum, locals>>

\* lines 120-131, no skip: reseed and go on to sample_init
BeginDesign ==
  /\ pc = "loop" /\ InBatch(i_des)
  /\ ~ShouldSkip(i_des)
  /\ Reseed(i_des)
  /\ trace' = trace \o
       (IF conf.deterministic THEN <<Event("seed", i_des, DesignSeed(i_des))>> ELSE <<>>)
       \o <<Event("begin", i_des, 0)>>
  /\ pc' = "sample_init"
  /\ UNCHANGED <<conf, disk, run, fail, design_startnum, i_des, locals>>

\* line 120: the range is exhausted and main() returns
BatchDone ==
  /\ pc = "loop" /\ ~InBatch(i_des)
  /\ pc' = "done"
  /\ UNCHANGED <<conf, disk, run, gen, fail, design_startnum, i_des, locals, trace>>

\* faulty variant: plain assignment, the loop variable is the tensor itself
SameTensor(x) == [val |-> x, own |-> FALSE]

\* lines 139-140: torch.clone(x), a tensor of the same value with storage of
\* its own
Clone(x) == [val |-> x, own |-> TRUE]

\* faulty variant: the accumulator outlives the design
KeptList(old) == old

\* lines 134-137: each accumulator is bound to a new empty list
NewList(old) == <<>>

\* lines 133-140: sample_init() returns; the accumulators start empty
SampleInit ==
  /\ pc = "sample_init"
  /\ LET out == SampleInitOut(gen) IN
       /\ x_init' = out.x /\ seq_init' = out.seq
       /\ x_t' = Clone(out.x).val /\ seq_t' = Clone(out.seq).val
       /\ aliased' = (IF Clone(out.x).own THEN {} ELSE {"x"})
                        \cup (IF Clone(out.seq).own THEN {} ELSE {"seq"})
  /\ gen' = Drawn(gen)
  /\ px0_xyz_stack' = NewList(px0_xyz_stack)
  /\ denoised_xyz_stack' = NewList(denoised_xyz_stack)
  /\ seq_stack' = NewList(seq_stack) /\ plddt_stack' = NewList(plddt_stack)
  /\ t' = conf.t_step_input
  /\ calls' = <<>>
  /\ Log(Event("init", i_des, 0))
  /\ pc' = "step"
  /\ UNCHANGED <<conf, disk, run, fail, design_startnum, i_des, final_seq, bfacts>>

\* line 133: sample_init() raises
SampleInitRaise ==
  /\ pc = "sample_init"
  /\ Abort("sampler")
  /\ UNCHANGED <<conf, disk, run, gen, design_startnum, i_des, locals>>

\* faulty variant: the range stops at final_step instead of final_step - 1
InRangeExclusive(tt) == tt > conf.final_step

\* line 142: range(int(t_step_input), final_step - 1, -1) still yields tt
InRange(tt) == tt > conf.final_step - 1
NextT(tt) == tt - 1

\* lines 146-149: what each accumulator gains from a step's result
AppendPx0(stack, out) == Append(stack, out.px0)
AppendDenoised(stack, out) == Append(stack, out.x_t)
AppendSeq(stack, out) == Append(stack, out.seq_t)
AppendPlddt(stack, out) == Append(stack, out.plddt[1])

\* faulty variant: the loop carries the px0 prediction forward
CarryPx0(out) == out.px0

\* line 143: x_t and seq_t are rebound to the second and third result
CarryXt(out) == out.x_t
CarrySeq(out) == out.seq_t

\* whether this call of sample_step() works in place, leaving its results in
\* the tensors it was passed as well as returning them in new ones
InPlace(g) == Mix(g) % 2 = 1

\* what a tensor the caller holds is worth after the call: rewritten when
\* it is the very tensor that was passed and the call worked in place
AfterCall(held, passed, g, result) == IF passed /\ InPlace(g) THEN result ELSE held

\* lines 142-149: one iteration of the timestep loop
SampleStep ==
  /\ pc = "step" /\ InRange(t)
  /\ LET out == SampleStepOut(gen) IN
       /\ calls' = Append(calls, [t |-> t, x_in |-> x_t, seq_in |-> seq_t,
                                  final_step |-> conf.final_step, out |-> out,
                                  aliased |-> aliased, inplace |-> InPlace(gen)])
       /\ px0_xyz_stack' = AppendPx0(px0_xyz_stack, out)
       /\ denoised_xyz_stack' = AppendDenoised(denoised_xyz_stack, out)
       /\ seq_stack' = AppendSeq(seq_stack, out)
       /\ plddt_stack' = AppendPlddt(plddt_stack, out)
       /\ x_t' = CarryXt(out) /\ seq_t' = CarrySeq(out)
       /\ x_init' = AfterCall(x_init, "x" \in aliased, gen, out.x_t)
       /\ seq_init' = AfterCall(seq_init, "seq" \in aliased, gen, out.seq_t)
  /\ aliased' = {}
  /\ gen' = Drawn(gen)
  /\ t' = NextT(t)
  /\ Log(Event("step", i_des, t))
  /\ UNCHANGED <<conf, disk, run, pc, fail, design_startnum, i_des,
                 final_seq, bfacts>>

\* faulty variant: the exception of sample_step() is caught and the batch goes on
\* with the next design
SampleStepCaught ==
  /\ pc = "step" /\ InRange(t)
  /\ Log(Event("raise", i_des, 0))
  /\ i_des' = i_des + 1
  /\ pc' = "loop"
  /\ UNCHANGED <<conf, disk, run, gen, fail, design_startnum, locals>>

\* line 143: sample_step() raises
SampleStepRaise ==
  /\ pc = "step" /\ InRange(t)
  /\ Abort("sampler")
  /\ UNCHANGED <<conf, disk, run, gen, design_startnum, i_des, locals>>

\* lines 152-168: the loop is over; stack and flip the two structure
\* accumulators, stack the confidences as they are
FlipDenoised(stack) == Flip(stack)
\* faulty variant: the px0 stack is stacked and not flipped
StackPx0Unflipped(stack) == stack
FlipPx0(stack) == Flip(stack)
\* faulty variant: the confidence stack is flipped with the others
StackPlddtFlipped(stack) == Flip(stack)
StackPlddt(stack) == stack

\* faulty variant: the design is saved as soon as one step has returned
AssembleEarly ==
  /\ pc = "step" /\ Len(denoised_xyz_stack) > 0
  /\ denoised_xyz_stack' = FlipDenoised(denoised_xyz_stack)
  /\ px0_xyz_stack' = FlipPx0(px0_xyz_stack)
  /\ plddt_stack' = StackPlddt(plddt_stack)
  /\ pc' = "save"
  /\ UNCHANGED <<conf, disk, run, gen, fail, design_startnum, i_des,
                 x_init, seq_init, x_t, seq_t, t, aliased, seq_stack, final_seq,
                 bfacts, calls, trace>>

\* lines 151-168, after a loop of at least one step
Assemble ==
  /\ pc = "step" /\ ~InRange(t)
  /\ Len(denoised_xyz_stack) > 0
  /\ denoised_xyz_stack' = FlipDenoised(denoised_xyz_stack)
  /\ px0_xyz_stack' = FlipPx0(px0_xyz_stack)
  /\ plddt_stack' = StackPlddt(plddt_stack)
  /\ pc' = "save"
  /\ UNCHANGED <<conf, disk, run, gen, fail, design_startnum, i_des,
                 x_init, seq_init, x_t, seq_t, t, aliased, seq_stack, final_seq,
                 bfacts, calls, trace>>

\* line 152: torch.stack of an empty list raises
AssembleRaise ==
  /\ pc = "step" /\ ~InRange(t)
  /\ Len(denoised_xyz_stack) = 0
  /\ Abort("stack")
  /\ UNCHANGED <<conf, disk, run, gen, design_startnum, i_des, locals>>

\* lines 171-181: make the output directory, build final_seq and bfacts
SaveBegin ==
  /\ pc = "save"
  /\ dirs' = dirs \cup {Dirname(OutPrefix(i_des))}
  /\ final_seq' = FinalSeq(seq_init)
  /\ bfacts' = Bfacts(seq_init)
  /\ pc' = "write_pdb"
  /\ UNCHANGED <<conf, files, run, gen, fail, design_startnum, i_des,
                 x_init, seq_init, x_t, seq_t, t, aliased, stacks, calls, trace>>

\* line 171: os.makedirs raises
SaveBeginRaise ==
  /\ pc = "save"
  /\ Abort("io")
  /\ UNCHANGED <<conf, disk, run, gen, design_startnum, i_des, locals>>

\* a writer that raises leaves no file or a partial one
WriteFails(path) ==
  /\ \E partial \in BOOLEAN :
       files' = IF partial THEN Put(files, path, File("partial", run, <<>>)) ELSE files
  /\ Abort("io")
  /\ UNCHANGED <<conf, dirs, run, gen, design_startnum, i_des, locals>>

Written(kind, i) == Log(Event(kind, i, 0))

\* lines 183-193: writepdb
PdbData == <<Backbone(denoised_xyz_stack), final_seq, bfacts>>

WritePdb ==
  /\ pc = "write_pdb"
  /\ files' = Put(files, PdbPath(i_des), File("pdb", run, PdbData))
  /\ Written("write_pdb", i_des)
  /\ pc' = "write_trb"
  /\ UNCHANGED <<conf, dirs, run, gen, fail, design_startnum, i_des, locals>>

WritePdbRaise == pc = "write_pdb" /\ WriteFails(PdbPath(i_des))

\* lines 196-206: the metadata record: the configuration and the confidence
\* stack (the device name, the elapsed time and the contig mappings, which
\* main() only passes on, are left out)
TrbData == <<conf, plddt_stack>>

\* faulty variant: the trajectories are written whatever the flag says
AfterTrbAlways == "write_xt"

\* line 208
AfterTrb == IF conf.write_trajectory THEN "write_xt" ELSE "finish"

WriteTrb ==
  /\ pc = "write_trb"
  /\ files' = Put(files, TrbPath(i_des), File("trb", run, TrbData))
  /\ Written("write_trb", i_des)
  /\ pc' = AfterTrb
  /\ UNCHANGED <<conf, dirs, run, gen, fail, design_startnum, i_des, locals>>

WriteTrbRaise == pc = "write_trb" /\ WriteFails(TrbPath(i_des))

\* lines 208-224: the trajectory of next structures
XtData == <<denoised_xyz_stack, bfacts, final_seq>>

WriteXt ==
  /\ pc = "write_xt"
  /\ dirs' = dirs \cup {Dirname(TrajPrefix(i_des))}
  /\ files' = Put(files, XtPath(i_des), File("traj", run, XtData))
  /\ Written("write_xt", i_des)
  /\ pc' = "write_px0"
  /\ UNCHANGED <<conf, run, gen, fail, design_startnum, i_des, locals>>

WriteXtRaise == pc = "write_xt" /\ WriteFails(XtPath(i_des))

\* lines 226-235: the trajectory of px0 predictions
Px0Data == <<px0_xyz_stack, bfacts, final_seq>>

WritePx0 ==
  /\ pc = "write_px0"
  /\ files' = Put(files, Px0Path(i_des), File("traj", run, Px0Data))
  /\ Written("write_px0", i_des)
  /\ pc' = "finish"
  /\ UNCHANGED <<conf, dirs, run, gen, fail, design_startnum, i_des, locals>>

WritePx0Raise == pc = "write_px0" /\ WriteFails(Px0Path(i_des))

\* line 237 and line 120: the design is finished, the loop goes on
FinishDesign ==
  /\ pc = "finish"
  /\ Log(Event("finished", i_des, 0))
  /\ i_des' = i_des + 1
  /\ pc' = "loop"
  /\ UNCHANGED <<conf, disk, run, gen, fail, design_startnum, locals>>

Next ==
  \/ Startup \/ ConstructSampler \/ ResolveStart
  \/ SkipDesign \/ BeginDesign \/ BatchDone
  \/ SampleInit \/ SampleInitRaise
  \/ SampleStep \/ SampleStepRaise
  \/ Assemble \/ AssembleRaise
  \/ SaveBegin \/ SaveBeginRaise
  \/ WritePdb \/ WritePdbRaise
  \/ WriteTrb \/ WriteTrbRaise
  \/ WriteXt \/ WriteXtRaise
  \/ WritePx0 \/ WritePx0Raise
  \/ FinishDesign

Spec == Init /\ [][Next]_vars

\* The same command is started again after a run that ended, normally or
\* not: a new process over the files the earlier runs left.
Rerun ==
  /\ pc \in {"done", "aborted"}
  /\ run < MaxRuns
  /\ run' = run + 1
  /\ pc' = "start" /\ fail' = "none"
  /\ \E e \in 1..MaxEntropy : gen' = Seeded(0 - e)
  /\ design_startnum' = 0 /\ i_des' = 0
  /\ x_init' = Unset /\ seq_init' = Unset /\ x_t' = Unset /\ seq_t' = Unset /\ t' = 0
  /\ aliased' = {}
  /\ px0_xyz_stack' = <<>> /\ denoised_xyz_stack' = <<>>
  /\ seq_stack' = <<>> /\ plddt_stack' = <<>>
  /\ final_seq' = Unset /\ bfacts' = Unset
  /\ calls' = <<>> /\ trace' = <<>>
  /\ UNCHANGED <<conf, disk>>

NextRerun == Next \/ Rerun

\* Configurations of the repeated command: an explicit start index over an
\* empty output directory, with the full timestep range or an empty one.
RerunConfs ==
  {Conf(det, seed, start, num, caut, traj, tt[1], tt[2]) :
     det \in BOOLEAN, seed \in 0..MaxSeed, start \in 0..MaxStart,
     num \in 1..MaxDesigns, caut \in BOOLEAN, traj \in BOOLEAN,
     tt \in {<<MaxT, 0>>, <<0, MaxT>>}}

InitRerun ==
  /\ conf \in {c \in RerunConfs : c.seed \in SeedChoices(c.deterministic)}
  /\ InitDisk({})
  /\ gen = Seeded(0 - 1)
  /\ InitLocals

SpecRerun == InitRerun /\ [][NextRerun]_vars

\* ================================================================ claims
\* positions of main() between the end of a design's timestep loop and the
\* end of the design
PostLoop == {"save", "write_pdb", "write_trb", "write_xt", "write_px0", "finish"}
\* positions where the structure artifact of the current design is written
PdbWritten == {"write_trb", "write_xt", "write_px0", "finish"}
\* positions where the metadata artifact of the current design is written
TrbWritten == {"write_xt", "write_px0", "finish"}

EventsOf(names) == SelectSeq(trace, LAMBDA e : e[1] \in names)
HasEvent(name, i) == \E k \in 1..Len(trace) : trace[k][1] = name /\ trace[k][2] = i
ArtifactPaths(i) == {PdbPath(i), TrbPath(i), XtPath(i), Px0Path(i)}

\* C1: with final_step <= t_step_input, the timestep loop of a design calls
\* sample_step exactly t_step_input - final_step + 1 times, first with
\* t = t_step_input, last with t = final_step, each t one less than the one
\* before; while the loop runs the calls made so far are the start of that
\* sequence.
C1_StepCount ==
  conf.final_step <= conf.t_step_input =>
    /\ pc \in {"step"} \cup PostLoop =>
         \A k \in 1..Len(calls) : calls[k].t = conf.t_step_input - (k - 1)
    /\ pc \in PostLoop =>
         /\ Len(calls) = conf.t_step_input - conf.final_step + 1
         /\ calls[1].t = conf.t_step_input
         /\ calls[Len(calls)].t = conf.final_step
         /\ \A k \in 2..Len(calls) : calls[k].t = calls[k - 1].t - 1

C1_Witness ==
  /\ pc = "save" /\ conf.t_step_input > conf.final_step
  /\ Len(calls) = conf.t_step_input - conf.final_step + 1
  /\ Len(calls) >= 2

\* C2: the sequence written to the structure artifact is decided by the
\* sequence sample_init() returned alone: glycine (7) where its category is
\* 21, its own category elsewhere, whatever the last step returned.
C2_FinalSeqFromInit ==
  (pc \in PdbWritten /\ fail = "none") =>
    LET written == files[PdbPath(i_des)].data[2] IN
      /\ Len(written) = Len(seq_init)
      /\ \A r \in 1..Len(seq_init) :
           written[r] = IF ArgMax(seq_init[r]) = DiffusedIdx
                        THEN Glycine ELSE ArgMax(seq_init[r])

\* the last step returned a sequence that differs from the written one, at
\* a diffused and at a motif position
C2_Witness ==
  /\ pc \in PdbWritten /\ fail = "none"
  /\ \E r \in 1..SeqLen :
       /\ ArgMax(seq_init[r]) = DiffusedIdx
       /\ ArgMax(seq_stack[Len(seq_stack)][r]) # Glycine
  /\ \E r \in 1..SeqLen :
       /\ ArgMax(seq_init[r]) # DiffusedIdx
       /\ ArgMax(seq_stack[Len(seq_stack)][r]) # ArgMax(seq_init[r])

C3_SkippedIndex == pc = "loop" /\ InBatch(i_des) /\ conf.cautious
                   /\ PdbPath(i_des) \in DOMAIN files

C3_SkipStep ==
  C3_SkippedIndex =>
    /\ disk' = disk
    /\ calls' = calls /\ gen'.draws = IF conf.deterministic THEN 0 ELSE gen.draws
    /\ pc' = "loop" /\ fail' = "none"
    /\ i_des' = i_des + 1
    /\ trace'[Len(trace')] = Event("skip", i_des, 0)

C3_SkippedUntouched ==
  \A k \in 1..Len(trace) :
    trace[k][1] = "skip" =>
      /\ \A j \in 1..Len(trace) :
           trace[j][2] = trace[k][2] => trace[j][1] \in {"skip", "seed"}
      /\ \A p \in ArtifactPaths(trace[k][2]) \cap DOMAIN files : files[p].run < run

\* C3: with cautious set, a design index of the batch whose <prefix>_<index>.pdb
\* exists when the loop reaches it is passed over in one step that changes
\* no file and no directory, calls no Sampler method and raises nothing, and
\* the loop goes on with the next index; no event of the run (sample_init,
\* step, write) bears a skipped index and no file of that index is of this
\* run.
C3_SkipNoEffects == [][C3_SkipStep]_vars /\ []C3_SkippedUntouched

\* an index was skipped and the next index was then generated
C3_Witness ==
  \E k \in 1..Len(trace) :
    /\ trace[k][1] = "skip"
    /\ HasEvent("write_pdb", trace[k][2] + 1)

\* C4 is about the state right after the scan: the loop is at its first
\* index and no file has been written since
C4_JustResolved ==
  /\ pc = "loop" /\ i_des = design_startnum /\ EventsOf({"skip", "begin"}) = <<>>
  /\ conf.design_startnum = AutoResume

AllDigits(d) == \A k \in 1..Len(d) : IsDigit(d[k])

\* the number a string of digits writes: the v whose decimal form, padded
\* with zeros to the string's length, is the string
C4_Number(d) == CHOOSE v \in 0..99 : ZeroPad(Digits(v), Len(d)) = d

\* the digits of p when p is <stem>_<digits>.pdb with <stem> at least as
\* long as `least`, <<>> otherwise
C4_Suffix(p, least) ==
  IF \E n \in 1..Len(p) :
       /\ Len(p) - Len(PdbExt) - n - 1 >= least
       /\ p[Len(p) - Len(PdbExt) - n] = "_"
       /\ AllDigits(SubSeq(p, Len(p) - Len(PdbExt) - n + 1, Len(p) - Len(PdbExt)))
  THEN LET n == CHOOSE n \in 1..Len(p) :
                  /\ Len(p) - Len(PdbExt) - n - 1 >= least
                  /\ p[Len(p) - Len(PdbExt) - n] = "_"
                  /\ AllDigits(SubSeq(p, Len(p) - Len(PdbExt) - n + 1,
                                      Len(p) - Len(PdbExt)))
       IN SubSeq(p, Len(p) - Len(PdbExt) - n + 1, Len(p) - Len(PdbExt))
  ELSE <<>>

\* the files named exactly <output_prefix>_<digits>.pdb
C4_ExactNames ==
  {p \in DOMAIN files :
     /\ EndsWith(p, PdbExt)
     /\ C4_Suffix(p, Len(output_prefix)) # <<>>
     /\ p = output_prefix \o <<"_">> \o C4_Suffix(p, Len(output_prefix)) \o PdbExt}

\* the files named <output_prefix><anything without "/">_<digits>.pdb
C4_GlobbedNames ==
  {p \in DOMAIN files :
     /\ EndsWith(p, PdbExt)
     /\ StartsWith(p, output_prefix)
     /\ \A k \in (Len(output_prefix) + 1)..Len(p) : p[k] # "/"
     /\ C4_Suffix(p, Len(output_prefix)) # <<>>}

C4_NextAfter(names) ==
  IF names = {} THEN 0
  ELSE 1 + SetMax({C4_Number(C4_Suffix(p, Len(output_prefix))) : p \in names})

\* C4 as claimed: with design_startnum = -1 the resolved start is 1 + the
\* largest index among the files named <output_prefix>_<digits>.pdb, 0 when
\* there is none.
C4_Original == C4_JustResolved => design_startnum = C4_NextAfter(C4_ExactNames)

\* C4 as amended: with design_startnum = -1 the resolved start is 1 + the
\* largest numeric suffix among the files the glob output_prefix*.pdb finds
\* whose name ends in _<digits>.pdb, whatever stands between the prefix and
\* that suffix, 0 when there is none; other names are ignored.
C4_ScanGlobbed == C4_JustResolved => design_startnum = C4_NextAfter(C4_GlobbedNames)

\* a design of another prefix and a name without digits are both present
C4_Witness ==
  /\ C4_JustResolved
  /\ OtherPrefixPdb \in DOMAIN files /\ NoSuffixPdb \in DOMAIN files
  /\ design_startnum = 4

C5_SamplingWritesNothing == pc \in {"sample_init", "step"} => disk' = disk

C5_RaiseEndsRun ==
  (Len(trace') = Len(trace) + 1 /\ trace'[Len(trace')][1] = "raise") =>
    pc' = "aborted" /\ i_des' = i_des

C5_AfterSamplerFailure ==
  (pc = "aborted" /\ fail = "sampler") =>
    /\ trace[Len(trace)] = Event("raise", i_des, 0)
    /\ \A p \in ArtifactPaths(i_des) \cap DOMAIN files : files[p].run < run
    /\ \A k \in 1..Len(trace) :
         /\ trace[k][2] <= i_des
         /\ trace[k][2] = i_des =>
              trace[k][1] \in {"seed", "begin", "init", "step", "raise"}
    /\ \A j \in design_startnum..(i_des - 1) :
         HasEvent("finished", j) =>
           /\ PdbPath(j) \in DOMAIN files /\ files[PdbPath(j)].kind = "pdb"
           /\ files[PdbPath(j)].run = run
           /\ TrbPath(j) \in DOMAIN files /\ files[TrbPath(j)].kind = "trb"
           /\ files[TrbPath(j)].run = run

\* C5: when sample_init() or sample_step() raises during design i the run
\* ends there: nothing was written between the start of the design and the
\* exception, so no artifact of i is of this run and the artifacts of the
\* designs finished earlier are as they were written; no index above i
\* appears among the run's events and no step follows the abort.
C5_SamplerFailureAborts ==
  /\ [][C5_SamplingWritesNothing /\ C5_RaiseEndsRun /\ pc # "aborted"]_vars
  /\ []C5_AfterSamplerFailure

\* sample_step raised in the middle of the loop of a design that follows a
\* finished one
C5_Witness ==
  /\ pc = "aborted" /\ fail = "sampler"
  /\ HasEvent("finished", i_des - 1)
  /\ HasEvent("step", i_des) /\ InRange(t)

\* design i has its full set of artifacts
C6_Complete(i) ==
  /\ PdbPath(i) \in DOMAIN files /\ files[PdbPath(i)].kind = "pdb"
  /\ TrbPath(i) \in DOMAIN files /\ files[TrbPath(i)].kind = "trb"
  /\ conf.write_trajectory =>
       /\ XtPath(i) \in DOMAIN files /\ files[XtPath(i)].kind = "traj"
       /\ Px0Path(i) \in DOMAIN files /\ files[Px0Path(i)].kind = "traj"

\* C6: when the same command (explicit start index, cautious set) is started
\* again and that run ends normally, every index of the range has its
\* structure, its metadata and, when enabled, its two trajectories.  (A first
\* run that ended normally left every index complete, so only a re-run after
\* an aborted run can fail this.)
C6_RerunCompletes ==
  (run >= 2 /\ pc = "done" /\ conf.cautious) =>
    \A i \in design_startnum..(design_startnum + conf.num_designs - 1) : C6_Complete(i)

\* the generator state k draws after seeding with the seed of design i
C7_GenOf(i, k) == [seed |-> conf.seed + i, draws |-> k]

\* C7: with deterministic set, the generators are seeded with the base seed
\* before the Sampler is built (and only once outside the design loop); when
\* sample_init() of design i is called the generators were just seeded with
\* seed + i and nothing has drawn from them since; through the design they
\* are that seeding advanced by this design's Sampler calls alone, so that
\* what sample_init() and every step returned, and with it every accumulator,
\* is the Sampler's answer to seed + i, whatever the start index, the count
\* and the indices skipped before; and designs of different indices are
\* seeded with different values.
C7_SeededPerDesign ==
  conf.deterministic =>
    /\ pc = "construct" =>
         gen = Seeded(conf.seed) /\ trace = <<Event("seed", NoDesign, conf.seed)>>
    /\ pc # "start" =>
         \A k \in 1..Len(trace) :
           (trace[k][1] = "seed" /\ trace[k][2] = NoDesign) <=> k = 1
    /\ pc = "sample_init" =>
         /\ gen = C7_GenOf(i_des, 0)
         /\ Len(trace) >= 2
         /\ trace[Len(trace) - 1] = Event("seed", i_des, conf.seed + i_des)
    /\ pc \in {"step"} \cup PostLoop =>
         /\ gen = C7_GenOf(i_des, 1 + Len(calls))
         /\ x_init = SampleInitOut(C7_GenOf(i_des, 0)).x
         /\ seq_init = SampleInitOut(C7_GenOf(i_des, 0)).seq
         /\ Len(seq_stack) = Len(calls) /\ Len(plddt_stack) = Len(calls)
         /\ Len(px0_xyz_stack) = Len(calls) /\ Len(denoised_xyz_stack) = Len(calls)
         /\ \A k \in 1..Len(calls) :
              LET out == SampleStepOut(C7_GenOf(i_des, k))
                  at == IF pc = "step" THEN k ELSE Len(calls) + 1 - k
              IN /\ calls[k].out = out
                 /\ seq_stack[k] = out.seq_t
                 /\ plddt_stack[k] = out.plddt[1]
                 /\ px0_xyz_stack[at] = out.px0
                 /\ denoised_xyz_stack[at] = out.x_t
    /\ \A j, k \in 1..Len(trace) :
         (trace[j][1] = "seed" /\ trace[k][1] = "seed"
            /\ trace[j][2] # NoDesign /\ trace[k][2] # NoDesign) =>
           /\ trace[j][3] = conf.seed + trace[j][2]
           /\ trace[j][2] # trace[k][2] => trace[j][3] # trace[k][3]

\* a seeded design, with a seed other than 0, that follows a skipped index
C7_Witness ==
  /\ conf.deterministic /\ conf.seed = 1
  /\ pc = "finish" /\ Len(calls) >= 2
  /\ i_des > design_startnum /\ HasEvent("skip", i_des - 1)

C8_ReverseOf(stack, field) ==
  /\ Len(stack) = Len(calls)
  /\ \A i \in 0..(Len(calls) - 1) :
       stack[i + 1] = calls[(Len(calls) - 1 - i) + 1].out[field]

\* C8: after the loop of a design with N steps, the next-structure stack and
\* the px0 stack each hold N elements and element i (from 0) is what the step
\* at generation position N - 1 - i returned: element 0 comes from the step
\* at t = final_step, element N - 1 from the step at t = t_step_input; the
\* two trajectory files hold exactly these stacks.
C8_StacksReversed ==
  /\ pc \in PostLoop =>
       /\ C8_ReverseOf(denoised_xyz_stack, "x_t")
       /\ C8_ReverseOf(px0_xyz_stack, "px0")
       /\ calls[Len(calls)].t = conf.final_step
       /\ calls[1].t = conf.t_step_input
  /\ pc \in {"write_px0", "finish"} /\ conf.write_trajectory =>
       C8_ReverseOf(files[XtPath(i_des)].data[1], "x_t")
  /\ pc = "finish" /\ conf.write_trajectory =>
       C8_ReverseOf(files[Px0Path(i_des)].data[1], "px0")

\* both trajectories of a design of at least two steps are written
C8_Witness ==
  /\ pc = "finish" /\ conf.write_trajectory /\ Len(calls) >= 2
  /\ files[Px0Path(i_des)].data[1][1] = calls[Len(calls)].out.px0
  /\ files[XtPath(i_des)].data[1][Len(calls)] = calls[1].out.x_t

\* C9: the confidence stack in the metadata artifact is in generation order:
\* for a design of N steps it holds N elements and element k (from 0) is the
\* confidence the k-th step, the one at t = t_step_input - k, returned,
\* without its leading dimension of size 1.
C9_PlddtChronological ==
  pc \in TrbWritten =>
    LET stored == files[TrbPath(i_des)].data[2] IN
      /\ Len(stored) = Len(calls)
      /\ \A k \in 0..(Len(calls) - 1) :
           /\ calls[k + 1].t = conf.t_step_input - k
           /\ calls[k + 1].out.plddt = <<stored[k + 1]>>

\* the metadata of a design of at least two steps is written
C9_Witness ==
  /\ pc \in TrbWritten /\ Len(calls) >= 2
  /\ files[TrbPath(i_des)].kind = "trb"
  /\ files[TrbPath(i_des)].data[2][1] # files[TrbPath(i_des)].data[2][2]

C10_Reached == EventsOf({"skip", "begin"})

C10_Range ==
  pc \notin {"start", "construct", "resolve"} =>
    /\ conf.design_startnum # AutoResume => design_startnum = conf.design_startnum
    /\ Len(C10_Reached) <= conf.num_designs
    /\ \A k \in 1..Len(C10_Reached) : C10_Reached[k][2] = design_startnum + (k - 1)
    /\ pc = "done" => Len(C10_Reached) = conf.num_designs
    /\ \A k \in 1..Len(C10_Reached) :
         (C10_Reached[k][1] = "begin" /\ HasEvent("finished", C10_Reached[k][2])) =>
           /\ PdbPath(C10_Reached[k][2]) \in DOMAIN files
           /\ files[PdbPath(C10_Reached[k][2])] # OldFile
           /\ files[PdbPath(C10_Reached[k][2])].run = run

C10_Decision ==
  (pc = "loop" /\ i_des < design_startnum + conf.num_designs) =>
    /\ Len(trace') > Len(trace)
    /\ trace'[Len(trace')] =
         IF conf.cautious /\ PdbPath(i_des) \in DOMAIN files
         THEN Event("skip", i_des, 0) ELSE Event("begin", i_des, 0)
    /\ trace'[Len(trace')][1] = "begin" => pc' = "sample_init" /\ i_des' = i_des

\* C10: the indices the loop reaches are design_startnum, design_startnum + 1,
\* ... in that order, each once, num_designs of them when the run ends
\* normally; design_startnum is the configured value unless that is -1; an
\* index is skipped exactly when cautious is set and its .pdb exists as the
\* loop reaches it, and is generated otherwise, its .pdb then being of this
\* run even when one existed.
C10_ContiguousRange == [][C10_Decision]_vars /\ []C10_Range

\* a batch from index 1 that skipped index 1 and generated index 2
C10_Witness ==
  /\ pc = "done" /\ conf.design_startnum = 1 /\ conf.num_designs = 2
  /\ HasEvent("skip", 1) /\ HasEvent("finished", 2)

\* C11: the loop of every design that is not skipped is entered with
\* final_step <= t_step_input and has made at least one sample_step call when
\* it ends.  main() checks neither: with final_step > t_step_input the loop
\* ends at once and torch.stack raises on the empty list.
C11_AtLeastOneStep ==
  /\ pc = "step" => conf.final_step <= conf.t_step_input
  /\ (pc = "step" /\ ~InRange(t)) => Len(calls) >= 1
  /\ fail # "stack"

C12_MaskOf(seq0, mask) ==
  /\ Len(mask) = Len(seq0)
  /\ \A r \in 1..Len(seq0) :
       /\ mask[r] = 0 <=> ArgMax(seq0[r]) = DiffusedIdx
       /\ mask[r] = 1 <=> ArgMax(seq0[r]) # DiffusedIdx

\* C12: the mask written with the structure artifact and with each of the
\* two trajectory artifacts is 0 exactly at the positions where the category
\* of the sequence sample_init() returned is 21 and 1 exactly at the others,
\* whatever the steps returned.
C12_MaskFromInit ==
  /\ pc \in PdbWritten => C12_MaskOf(seq_init, files[PdbPath(i_des)].data[3])
  /\ (pc \in {"write_px0", "finish"} /\ conf.write_trajectory) =>
       C12_MaskOf(seq_init, files[XtPath(i_des)].data[2])
  /\ (pc = "finish" /\ conf.write_trajectory) =>
       C12_MaskOf(seq_init, files[Px0Path(i_des)].data[2])

\* all three artifacts are written; the last step marked as diffused a
\* position the initial sequence did not, and the other way round
C12_Witness ==
  /\ pc = "finish" /\ conf.write_trajectory
  /\ \E r \in 1..SeqLen :
       /\ ArgMax(seq_init[r]) = DiffusedIdx
       /\ ArgMax(seq_stack[Len(seq_stack)][r]) # DiffusedIdx
  /\ \E r \in 1..SeqLen :
       /\ ArgMax(seq_init[r]) # DiffusedIdx
       /\ ArgMax(seq_stack[Len(seq_stack)][r]) = DiffusedIdx

\* p is <output_prefix>_<five digits that write i><ext>
C13_IsNameOf(p, i, ext) ==
  /\ Len(p) = Len(output_prefix) + 1 + PadWidth + Len(ext)
  /\ StartsWith(p, output_prefix) /\ EndsWith(p, ext)
  /\ p[Len(output_prefix) + 1] = "_"
  /\ LET d == SubSeq(p, Len(output_prefix) + 2, Len(output_prefix) + 1 + PadWidth)
     IN AllDigits(d) /\ C4_Number(d) = i

C13_OfKind(kind) == {p \in DOMAIN files : files[p].kind = kind}
C13_Stem(p) == SubSeq(p, 1, Len(p) - Len(PdbExt))
C13_Steps == conf.t_step_input - conf.final_step + 1

\* a first run that ended normally, skipped nothing and left no file that
\* was there before it
C13_CleanBatch ==
  /\ run = 1 /\ pc = "done" /\ EventsOf({"skip"}) = <<>>
  /\ \A p \in DOMAIN files : files[p].run = run

\* C13: a batch with start index s and count n over no earlier artifacts that
\* ends without failure leaves exactly n structure artifacts and n metadata
\* artifacts: one pair per index i of s..s+n-1, named <output_prefix>_<i as
\* five zero-padded digits>.pdb and the same stem with .trb, and every other
\* file is a trajectory; each design ran t_step_input - final_step + 1 steps
\* and its confidence stack and trajectory stacks have that length.
C13_OnePairPerIndex ==
  C13_CleanBatch =>
    LET idx == design_startnum..(design_startnum + conf.num_designs - 1) IN
      /\ Cardinality(C13_OfKind("pdb")) = conf.num_designs
      /\ Cardinality(C13_OfKind("trb")) = conf.num_designs
      /\ \A i \in idx : \E p \in C13_OfKind("pdb") :
           /\ C13_IsNameOf(p, i, PdbExt)
           /\ C13_Stem(p) \o TrbExt \in C13_OfKind("trb")
           /\ Len(files[C13_Stem(p) \o TrbExt].data[2]) = C13_Steps
           /\ Len(SelectSeq(trace, LAMBDA e : e[1] = "step" /\ e[2] = i)) = C13_Steps
      /\ \A p \in C13_OfKind("pdb") : \E i \in idx : C13_IsNameOf(p, i, PdbExt)
      /\ \A p \in C13_OfKind("trb") : \E i \in idx : C13_IsNameOf(p, i, TrbExt)
      /\ \A p \in DOMAIN files : files[p].kind \in {"pdb", "trb", "traj"}
      /\ \A p \in C13_OfKind("traj") : Len(files[p].data[1]) = C13_Steps

\* two designs from index 1, of MaxT + 1 steps each, with trajectories
C13_Witness ==
  /\ C13_CleanBatch /\ conf.num_designs = 2 /\ design_startnum = 1
  /\ conf.write_trajectory /\ C13_Steps = MaxT + 1
  /\ Len(files[TrbPath(2)].data[2]) = MaxT + 1

\* C14: within a design the first sample_step call is passed copies of what
\* sample_init() returned (equal values, tensors of their own); every later
\* call is passed the x_t and seq_t the call just before it returned, not its
\* px0 and not the structure of an older call; every call is passed the
\* configured final_step; the loop variables end as the last call's results.
C14_Chained ==
  pc \in {"step"} \cup PostLoop =>
    /\ \A k \in 1..Len(calls) :
         /\ calls[k].final_step = conf.final_step
         /\ k = 1 =>
              /\ calls[k].x_in = x_init /\ calls[k].seq_in = seq_init
              /\ calls[k].aliased = {}
         /\ k > 1 =>
              /\ calls[k].x_in = calls[k - 1].out.x_t
              /\ calls[k].seq_in = calls[k - 1].out.seq_t
              /\ calls[k].x_in # calls[k - 1].out.px0
              /\ \A j \in 1..(k - 2) : calls[k].x_in # calls[j].out.x_t
    /\ Len(calls) > 0 =>
         /\ x_t = calls[Len(calls)].out.x_t
         /\ seq_t = calls[Len(calls)].out.seq_t

\* a loop of three steps whose sequences changed from step to step
C14_Witness ==
  /\ pc = "save" /\ Len(calls) >= 3
  /\ calls[3].seq_in # calls[2].seq_in
  /\ calls[2].seq_in # calls[1].seq_in

C16_Names(i) ==
  LET ev == SelectSeq(trace, LAMBDA e : e[2] = i /\ e[1] # "seed")
  IN [k \in 1..Len(ev) |-> ev[k][1]]

\* what a generated design does, from first to last
C16_Order ==
  <<"begin", "init">>
    \o [k \in 1..(conf.t_step_input - conf.final_step + 1) |-> "step"]
    \o <<"write_pdb", "write_trb">>
    \o (IF conf.write_trajectory THEN <<"write_xt", "write_px0">> ELSE <<>>)
    \o <<"finished">>

C16_IsPrefix(a, b) == Len(a) <= Len(b) /\ SubSeq(b, 1, Len(a)) = a

C16_Writes == {"write_pdb", "write_trb", "write_xt", "write_px0"}

\* C16: the events of a design that is not skipped are, in this order,
\* sample_init() once, the steps, the structure write, the metadata write
\* and, when enabled, the two trajectory writes, possibly cut short by an
\* exception; a write of design i follows the return of its step at
\* t = final_step, a metadata write follows the structure write of the same
\* index, and the events of the run are ordered by design index, so every
\* write of design i comes before sample_init() of design i + 1.
C16_EventOrder ==
  /\ \A k \in 1..Len(trace) :
       /\ trace[k][1] = "begin" =>
            LET names == C16_Names(trace[k][2]) IN
              IF names[Len(names)] = "raise"
              THEN /\ C16_IsPrefix(SubSeq(names, 1, Len(names) - 1), C16_Order)
                   /\ trace[Len(trace)][1] = "raise"
              ELSE C16_IsPrefix(names, C16_Order)
       /\ trace[k][1] \in C16_Writes =>
            \E j \in 1..(k - 1) :
              trace[j] = Event("step", trace[k][2], conf.final_step)
       /\ trace[k][1] = "write_trb" =>
            \E j \in 1..(k - 1) : trace[j] = Event("write_pdb", trace[k][2], 0)
  /\ \A j, k \in 1..Len(trace) :
       (j < k /\ trace[j][2] # NoDesign) => trace[j][2] <= trace[k][2]

\* two designs were generated in one run, trajectories included
C16_Witness ==
  /\ pc = "done" /\ conf.write_trajectory
  /\ \E i \in 0..MaxStart :
       /\ C16_Names(i) = C16_Order /\ C16_Names(i + 1) = C16_Order
  /\ Len(C16_Order) >= 8

\* the trajectory names of design i: in traj/ beside the prefix's directory
\* "o", the prefix's last component "d", the padded index, the suffix
C17_XtName(i) ==
  <<"o", "/", "t", "r", "a", "j", "/", "d", "_">> \o Format05d(i)
    \o <<"_", "X", "t", "-", "1", "_", "t", "r", "a", "j", ".", "p", "d", "b">>
C17_Px0Name(i) ==
  <<"o", "/", "t", "r", "a", "j", "/", "d", "_">> \o Format05d(i)
    \o <<"_", "p", "X", "0", "_", "t", "r", "a", "j", ".", "p", "d", "b">>

C17_Indices(name) == {trace[k][2] : k \in {j \in 1..Len(trace) : trace[j][1] = name}}

\* C17: with write_trajectory set, a generated design writes, after its
\* structure and metadata, exactly two trajectory files, in traj/ beside the
\* prefix's directory: <name>_Xt-1_traj.pdb holding the flipped next-structure
\* stack and <name>_pX0_traj.pdb holding the flipped px0 stack, each with the
\* mask and the final sequence of the structure artifact; with the flag
\* unset no trajectory file and no traj/ directory is made and a finished
\* design wrote its structure and metadata only.
C17_TrajectoryIffFlag ==
  /\ pc = "finish" =>
       IF conf.write_trajectory
       THEN LET pdb == files[PdbPath(i_des)]
                xt == files[C17_XtName(i_des)]
                p0 == files[C17_Px0Name(i_des)]
            IN /\ xt.kind = "traj" /\ xt.run = run
               /\ p0.kind = "traj" /\ p0.run = run
               /\ xt.data[1] = denoised_xyz_stack /\ p0.data[1] = px0_xyz_stack
               /\ C8_ReverseOf(xt.data[1], "x_t") /\ C8_ReverseOf(p0.data[1], "px0")
               /\ xt.data[2] = pdb.data[3] /\ p0.data[2] = pdb.data[3]
               /\ xt.data[3] = pdb.data[2] /\ p0.data[3] = pdb.data[2]
       ELSE /\ C17_XtName(i_des) \notin DOMAIN files
            /\ C17_Px0Name(i_des) \notin DOMAIN files
            /\ \A k \in 1..Len(trace) :
                 (trace[k][2] = i_des /\ trace[k][1] \in C16_Writes) =>
                   trace[k][1] \in {"write_pdb", "write_trb"}
  /\ C13_OfKind("traj") =
       {C17_XtName(i) : i \in C17_Indices("write_xt")}
         \cup {C17_Px0Name(i) : i \in C17_Indices("write_px0")}
  /\ conf.write_trajectory =>
       /\ C17_Indices("finished") \subseteq C17_Indices("write_px0")
       /\ C17_Indices("write_px0") \subseteq C17_Indices("write_xt")
  /\ ~conf.write_trajectory =>
       /\ C13_OfKind("traj") = {}
       /\ <<"o", "/", "t", "r", "a", "j">> \notin dirs

\* the second design of a run has written both trajectories
C17_Witness ==
  /\ pc = "finish" /\ conf.write_trajectory /\ Len(calls) >= 2
  /\ HasEvent("finished", i_des - 1)
  /\ Cardinality(C13_OfKind("traj")) = 4

\* the results of this design's steps, by field
C18_Results(field) == {calls[k].out[field] : k \in 1..Len(calls)}
C18_Elements(stack) == {stack[k] : k \in 1..Len(stack)}

\* C18: the Sampler is built once in a run, before the design loop; the four
\* accumulators are empty when the first step of a design is about to run,
\* hold one element per step of this design while the loop runs and after
\* it, and every element is a result of one of this design's own steps,
\* in the state and in the artifacts, whatever was generated or skipped
\* before.
C18_AccumulatorsPerDesign ==
  /\ pc \notin {"start", "construct"} =>
       /\ Len(EventsOf({"construct"})) = 1
       /\ \A k \in 1..Len(trace) :
            trace[k][1] = "construct" =>
              \A j \in 1..(k - 1) : trace[j][2] = NoDesign
  /\ pc \in {"step"} \cup PostLoop =>
       /\ Len(calls) = Len(SelectSeq(trace, LAMBDA e : e[1] = "step" /\ e[2] = i_des))
       /\ Len(px0_xyz_stack) = Len(calls) /\ Len(denoised_xyz_stack) = Len(calls)
       /\ Len(seq_stack) = Len(calls) /\ Len(plddt_stack) = Len(calls)
       /\ C18_Elements(px0_xyz_stack) = C18_Results("px0")
       /\ C18_Elements(denoised_xyz_stack) = C18_Results("x_t")
       /\ C18_Elements(seq_stack) = C18_Results("seq_t")
       /\ C18_Elements(plddt_stack) = {calls[k].out.plddt[1] : k \in 1..Len(calls)}
  /\ pc \in PostLoop => Len(calls) = C13_Steps
  /\ pc \in TrbWritten =>
       C18_Elements(files[TrbPath(i_des)].data[2])
         = {calls[k].out.plddt[1] : k \in 1..Len(calls)}
  /\ (pc = "finish" /\ conf.write_trajectory) =>
       /\ C18_Elements(files[XtPath(i_des)].data[1]) = C18_Results("x_t")
       /\ C18_Elements(files[Px0Path(i_des)].data[1]) = C18_Results("px0")

\* a design generated after another generated design of several steps
C18_Witness ==
  /\ pc = "finish" /\ Len(calls) >= 2
  /\ HasEvent("finished", i_des - 1) /\ HasEvent("step", i_des - 1)
  /\ Len(EventsOf({"step"})) = 2 * Len(calls)

\* what sample_init() returned to the current design: the Sampler's answer
\* to the generator state before this design's Sampler calls
C19_Returned ==
  SampleInitOut([seed |-> gen.seed, draws |-> gen.draws - 1 - Len(calls)])

C19_InDesign == pc \in {"step"} \cup PostLoop

C19_LoopKeepsInit == C19_InDesign => (x_init' = x_init /\ seq_init' = seq_init)

C19_InitIntact ==
  C19_InDesign =>
    /\ aliased = {}
    /\ \A k \in 1..Len(calls) : calls[k].aliased = {}
    /\ x_init = C19_Returned.x /\ seq_init = C19_Returned.seq
    /\ pc \in PdbWritten =>
         /\ C12_MaskOf(C19_Returned.seq, files[PdbPath(i_des)].data[3])
         /\ \A r \in 1..SeqLen :
              files[PdbPath(i_des)].data[2][r] =
                IF ArgMax(C19_Returned.seq[r]) = DiffusedIdx
                THEN Glycine ELSE ArgMax(C19_Returned.seq[r])

\* C19: the tensors sample_init() returned are never the ones passed to
\* sample_step (the loop threads clones and then the steps' results) and no
\* step of main() between sample_init() and the end of the design assigns
\* x_init or seq_init; so the seq_init read for the final sequence and the
\* mask is the value sample_init() returned, also when a step works in place
\* on the tensors it is passed.
C19_InitNeverThreaded == [][C19_LoopKeepsInit]_vars /\ []C19_InitIntact

\* the first step worked in place on its arguments and returned a sequence
\* other than the initial one; the structure artifact is written
C19_Witness ==
  /\ pc \in PdbWritten /\ Len(calls) >= 2
  /\ calls[1].inplace /\ calls[1].out.seq_t # seq_init
  /\ ArgMaxSeq(calls[1].out.seq_t) # ArgMaxSeq(seq_init)

C20_Resolved == pc \notin {"start", "construct", "resolve"}
                /\ conf.design_startnum = AutoResume

\* the resolved start is above the index of every structure artifact of the
\* prefix that is there from before the run, and nothing below it is written
C20_StartAboveExisting ==
  C20_Resolved =>
    /\ \A p \in C4_ExactNames :
         files[p] = OldFile =>
           design_startnum > C4_Number(C4_Suffix(p, Len(output_prefix)))
    /\ \A k \in 1..Len(trace) :
         trace[k][1] \in C16_Writes => trace[k][2] >= design_startnum

\* no step of an auto-resumed run touches a structure artifact that was
\* there before it
C20_KeepsOld ==
  conf.design_startnum = AutoResume =>
    \A p \in C4_ExactNames : files[p] = OldFile =>
      (p \in DOMAIN files' /\ files'[p] = OldFile)

====
